---- MODULE Spec2Model ----
(***************************************************************************)
(* Model of the SSD1306 display driver, its two bus transports and the     *)
(* Graphics rasterizer of micropython/sensor_hud/lib/display.py.           *)
(*                                                                         *)
(* The driver is single threaded.  A public call is modelled as the list   *)
(* of the calls its body makes (todo), executed one call per step, so that *)
(* the order of the transmissions inside one call is observable.           *)
(***************************************************************************)
EXTENDS Integers, Sequences, FiniteSets, TLC

(***************************************************************************)
(* Command opcodes, display.py lines 6-24 (hexadecimal in the source).     *)
(***************************************************************************)
SSD1306_ADDRESS == 60
SET_CONTRAST == 129
SET_ENTIRE_ON == 164
SET_NORM_INV == 166
SET_DISP == 174
SET_MEM_ADDR == 32
SET_COL_ADDR == 33
SET_PAGE_ADDR == 34
SET_DISP_START_LINE == 64
SET_SEG_REMAP == 160
SET_MUX_RATIO == 168
SET_IREF_SELECT == 173
SET_COM_OUT_DIR == 192
SET_DISP_OFFSET == 211
SET_COM_PIN_CFG == 218
SET_DISP_CLK_DIV == 213
SET_PRECHARGE == 217
SET_VCOM_DESEL == 219
SET_CHARGE_PUMP == 141

(***************************************************************************)
(* Inputs of the model.                                                    *)
(***************************************************************************)
Widths == {64, 96, 128}
Heights == {32, 64}
Transports == {"I2C", "SPI"}
Addrs == {60, 61}
Contrasts == {0, 200}
Flags == {0, 1, 2}
Colors == {0, 1}

(***************************************************************************)
(* Python integer operators on non-negative operands.                      *)
(***************************************************************************)
RECURSIVE BitOr(_, _)
BitOr(a, b) ==
    IF a = 0 THEN b
    ELSE IF b = 0 THEN a
    ELSE (IF a % 2 = 1 \/ b % 2 = 1 THEN 1 ELSE 0) + 2 * BitOr(a \div 2, b \div 2)

RECURSIVE BitAnd(_, _)
BitAnd(a, b) ==
    IF a = 0 \/ b = 0 THEN 0
    ELSE (IF a % 2 = 1 /\ b % 2 = 1 THEN 1 ELSE 0) + 2 * BitAnd(a \div 2, b \div 2)

RECURSIVE Shl(_, _)
Shl(a, n) == IF n = 0 THEN a ELSE Shl(2 * a, n - 1)

VARIABLES
    width, height, external_vcc,  \* SSD1306 fields / constructor arguments
    transport, addr,              \* which subclass, and SSD1306_I2C.addr
    pages, buffer,                \* SSD1306.pages, SSD1306.buffer
    temp, write_list,             \* SSD1306_I2C.temp, SSD1306_I2C.write_list
    cs, dc, res,                  \* levels of the SSD1306_SPI pins (-1: no pin)
    reset_log,                    \* what was done to the res pin, and the sleeps
    op,                           \* the public call in progress or last completed
    todo,                         \* the calls the public call still has to make
    calls,                        \* write_cmd / write_data / fill calls made by op so far
    wire,                         \* bus writes made by op so far
    panel,                        \* the controller's command decoder
    g_call, g_pixels,             \* Graphics: the primitive called, its _pixel calls
    g_width, g_height,            \* Graphics.width, Graphics.height
    g_raised,                     \* the exception the call ended with, or "none"
    font,                         \* FontWriter.font: character code -> <<width, bytes...>>
    active_channels,              \* I2CMultiplexer.active_channels
    inactive_channels,            \* I2CMultiplexer.inactive_channels
    channel, device,              \* I2CMultiplexer.channel, .device (the channel whose devices)
    device_reg,                   \* I2CMultiplexer.device_reg: channel -> devices registered
    m_connected,                  \* the channels behind which a device answers a scan
    m_address_bound,              \* whether the name I2CMULTIPLEXER_ADDRESS resolves
    m_constructed,                \* whether I2CMultiplexer(i2c) has returned an object
    m_call,                       \* the I2CMultiplexer call made last
    m_writes,                     \* the bytes that call wrote to the multiplexer
    m_raised                      \* the exception that call ended with, or "none"

vars == <<width, height, external_vcc, transport, addr, pages, buffer, temp,
          write_list, cs, dc, res, reset_log, op, todo, calls, wire, panel,
          g_call, g_pixels, g_width, g_height, g_raised, font,
          active_channels, inactive_channels, channel, device, device_reg,
          m_connected, m_address_bound, m_constructed, m_call, m_writes,
          m_raised>>

cfgvars == <<width, height, external_vcc, transport, addr>>
gvars == <<g_call, g_pixels, g_width, g_height, g_raised, font>>
mvars == <<active_channels, inactive_channels, channel, device, device_reg,
           m_connected, m_address_bound, m_constructed, m_call, m_writes,
           m_raised>>

\* no I2CMultiplexer has been constructed and none is going to be
NoDevice == 0 - 1

NoMultiplexer ==
    /\ active_channels = << >>
    /\ inactive_channels = << >>
    /\ channel = 0
    /\ device = NoDevice
    /\ device_reg = << >>
    /\ m_connected = {}
    /\ m_address_bound = FALSE
    /\ m_constructed = FALSE
    /\ m_call = [name |-> "none", arg |-> << >>]
    /\ m_writes = << >>
    /\ m_raised = "none"

Call(k, v) == [k |-> k, v |-> v]
Cmd(v) == Call("cmd", v)

(***************************************************************************)
(* framebuf.FrameBuffer in MONO_VLSB format over SSD1306.buffer: the byte  *)
(* at index x + (y // 8) * width holds column x of one page, bit y % 8 is  *)
(* the pixel (x, y).  buffer is a 1-based sequence: index i is byte i - 1. *)
(***************************************************************************)
bytearray(n) == [i \in 1..n |-> 0]

fb_fill(buf, c) == [i \in 1..Len(buf) |-> IF c # 0 THEN 255 ELSE 0]

fb_pixel(buf, w, h, x, y, c) ==
    IF x < 0 \/ x >= w \/ y < 0 \/ y >= h
    THEN buf
    ELSE LET i == x + (y \div 8) * w + 1
             bit == Shl(1, y % 8)
         IN  [buf EXCEPT ![i] = IF c # 0 THEN BitOr(@, bit) ELSE @ - BitAnd(@, bit)]

(***************************************************************************)
(* Faulty variants of the definitions below, used to show that the         *)
(* properties distinguish the driver from a plausible wrong one.  Each is  *)
(* placed before the definition it is a variant of.                        *)
(***************************************************************************)
\* pre-charge and charge-pump values chosen for the wrong supply
init_cmds_vcc_swapped(w, h, ext) ==
    << SET_DISP, SET_MEM_ADDR, 0, SET_DISP_START_LINE, BitOr(SET_SEG_REMAP, 1),
       SET_MUX_RATIO, h - 1, BitOr(SET_COM_OUT_DIR, 8), SET_DISP_OFFSET, 0,
       SET_COM_PIN_CFG, IF w > 2 * h THEN 2 ELSE 18, SET_DISP_CLK_DIV, 128,
       SET_PRECHARGE, IF ext THEN 241 ELSE 34, SET_VCOM_DESEL, 48,
       SET_CONTRAST, 255, SET_ENTIRE_ON, SET_NORM_INV, SET_IREF_SELECT, 48,
       SET_CHARGE_PUMP, IF ext THEN 20 ELSE 16, BitOr(SET_DISP, 1) >>

(***************************************************************************)
(* SSD1306.init_display: the command tuple, in the order it is written.    *)
(***************************************************************************)
init_cmds(w, h, ext) ==
    << SET_DISP,
       SET_MEM_ADDR,
       0,
       SET_DISP_START_LINE,
       BitOr(SET_SEG_REMAP, 1),
       SET_MUX_RATIO,
       h - 1,
       BitOr(SET_COM_OUT_DIR, 8),
       SET_DISP_OFFSET,
       0,
       SET_COM_PIN_CFG,
       IF w > 2 * h THEN 2 ELSE 18,
       SET_DISP_CLK_DIV,
       128,
       SET_PRECHARGE,
       IF ext THEN 34 ELSE 241,
       SET_VCOM_DESEL,
       48,
       SET_CONTRAST,
       255,
       SET_ENTIRE_ON,
       SET_NORM_INV,
       SET_IREF_SELECT,
       48,
       SET_CHARGE_PUMP,
       IF ext THEN 16 ELSE 20,
       BitOr(SET_DISP, 1) >>

(***************************************************************************)
(* SSD1306.show: the column window, then the calls show makes.             *)
(***************************************************************************)
show_x0(w) == IF w # 128 THEN 0 + (128 - w) \div 2 ELSE 0

\* centring offset applied to the start column only
show_x1_no_offset(w) == w - 1

show_x1(w) == IF w # 128 THEN (w - 1) + (128 - w) \div 2 ELSE w - 1

\* page window not sent again before the data
show_body_stale_pages(w, p) ==
    << Cmd(SET_COL_ADDR), Cmd(IF w # 128 THEN (128 - w) \div 2 ELSE 0),
       Cmd(IF w # 128 THEN (w - 1) + (128 - w) \div 2 ELSE w - 1),
       Call("data", 0) >>

show_body(w, p) ==
    << Cmd(SET_COL_ADDR), Cmd(show_x0(w)), Cmd(show_x1(w)),
       Cmd(SET_PAGE_ADDR), Cmd(0), Cmd(p - 1),
       Call("data", 0) >>

init_calls(w, h, ext) ==
    [i \in 1..Len(init_cmds(w, h, ext)) |-> Cmd(init_cmds(w, h, ext)[i])]

\* buffer cleared before the command sequence instead of after it
init_display_body_clear_first(w, h, ext, p) ==
    << Call("fill", 0) >> \o init_calls(w, h, ext) \o show_body(w, p)

\* display switched on before the configuration has been sent
init_display_body_on_first(w, h, ext, p) ==
    << Cmd(BitOr(SET_DISP, 1)) >> \o init_calls(w, h, ext)
        \o << Call("fill", 0) >> \o show_body(w, p)

init_display_body(w, h, ext, p) ==
    init_calls(w, h, ext) \o << Call("fill", 0) >> \o show_body(w, p)

poweroff_body == << Cmd(SET_DISP) >>

poweron_body == << Cmd(BitOr(SET_DISP, 1)) >>

\* contrast that also flushes the buffer
contrast_body_flush(c) == << Cmd(SET_CONTRAST), Cmd(c), Call("data", 0) >>

contrast_body(c) == << Cmd(SET_CONTRAST), Cmd(c) >>

invert_body(i) == << Cmd(BitOr(SET_NORM_INV, BitAnd(i, 1))) >>

\* rotate that sets the COM direction only
rotate_body_com_only(r) == << Cmd(BitOr(SET_COM_OUT_DIR, Shl(BitAnd(r, 1), 3))) >>

rotate_body(r) ==
    << Cmd(BitOr(SET_COM_OUT_DIR, Shl(BitAnd(r, 1), 3))),
       Cmd(BitOr(SET_SEG_REMAP, BitAnd(r, 1))) >>

(***************************************************************************)
(* SSD1306_SPI: the constructor up to super().__init__, and the pin and    *)
(* bus calls of write_cmd and write_data.                                  *)
(***************************************************************************)
SPI_init_body ==
    << Call("dc_init", 0), Call("res_init", 0), Call("cs_init", 1),
       Call("res", 1), Call("sleep_ms", 1),
       Call("res", 0), Call("sleep_ms", 10),
       Call("res", 1),
       Call("base_init", 0) >>

\* D/C changed after chip-select has been asserted
SPI_write_cmd_body_dc_late(cmd) ==
    << Call("cs", 1), Call("cs", 0), Call("dc", 0),
       Call("spi_write", cmd), Call("cs", 1) >>

SPI_write_cmd_body(cmd) ==
    << Call("cs", 1), Call("dc", 0), Call("cs", 0),
       Call("spi_write", cmd), Call("cs", 1) >>

SPI_write_data_body ==
    << Call("cs", 1), Call("dc", 1), Call("cs", 0),
       Call("spi_write_buf", 0), Call("cs", 1) >>

(***************************************************************************)
(* The controller's command decoder.  An opcode is followed by as many     *)
(* parameter bytes as the driver sends after it (init_display, contrast,   *)
(* show); the decoder keeps the COM scan direction and the segment remap   *)
(* of the last such opcode it received.                                    *)
(***************************************************************************)
ParamCount(b) ==
    IF b \in {SET_COL_ADDR, SET_PAGE_ADDR} THEN 2
    ELSE IF b \in {SET_MEM_ADDR, SET_MUX_RATIO, SET_DISP_OFFSET, SET_COM_PIN_CFG,
                   SET_DISP_CLK_DIV, SET_PRECHARGE, SET_VCOM_DESEL, SET_CONTRAST,
                   SET_IREF_SELECT, SET_CHARGE_PUMP} THEN 1
    ELSE 0

Decode(p, b) ==
    IF p.pending > 0 THEN [p EXCEPT !.pending = @ - 1]
    ELSE IF b \in {SET_COM_OUT_DIR, SET_COM_OUT_DIR + 8}
         THEN [p EXCEPT !.com = BitAnd(b, 8) \div 8]
    ELSE IF b \in {SET_SEG_REMAP, SET_SEG_REMAP + 1}
         THEN [p EXCEPT !.seg = BitAnd(b, 1)]
    ELSE [p EXCEPT !.pending = ParamCount(b)]

(***************************************************************************)
(* Initial state: the constructor arguments are chosen, no constructor has *)
(* run.  The SPI pins are in whatever state the caller left them.          *)
(***************************************************************************)
Init ==
    /\ width \in Widths
    /\ height \in Heights
    /\ external_vcc \in BOOLEAN
    /\ transport \in Transports
    /\ addr \in (IF transport = "I2C" THEN Addrs ELSE {-1})
    /\ pages = 0
    /\ buffer = << >>
    /\ temp = << >>
    /\ write_list = << >>
    /\ cs \in (IF transport = "SPI" THEN {0, 1} ELSE {-1})
    /\ dc \in (IF transport = "SPI" THEN {0, 1} ELSE {-1})
    /\ res \in (IF transport = "SPI" THEN {0, 1} ELSE {-1})
    /\ reset_log = << >>
    /\ op = [name |-> "new", arg |-> << >>]
    /\ todo = << >>
    /\ calls = << >>
    /\ wire = << >>
    /\ panel = [pending |-> 0, com |-> 0, seg |-> 0]
    /\ g_call = [name |-> "none", arg |-> << >>]
    /\ g_pixels = << >>
    /\ g_width = 0
    /\ g_height = 0
    /\ g_raised = "none"
    /\ font = << >>
    /\ NoMultiplexer

Idle == op.name # "new" /\ todo = << >>

(***************************************************************************)
(* Constructors.                                                           *)
(***************************************************************************)
SSD1306_I2C_init ==
    /\ op.name = "new" /\ transport = "I2C"
    /\ temp' = bytearray(2)
    /\ write_list' = << <<64>>, << >> >>
    /\ op' = [name |-> "__init__", arg |-> << >>]
    /\ todo' = << Call("base_init", 0) >>
    /\ UNCHANGED <<cfgvars, pages, buffer, cs, dc, res, reset_log, calls, wire,
                   panel, gvars, mvars>>

SSD1306_SPI_init ==
    /\ op.name = "new" /\ transport = "SPI"
    /\ op' = [name |-> "__init__", arg |-> << >>]
    /\ todo' = SPI_init_body
    /\ UNCHANGED <<cfgvars, pages, buffer, temp, write_list, cs, dc, res,
                   reset_log, calls, wire, panel, gvars, mvars>>

SSD1306_init ==
    /\ todo # << >> /\ Head(todo).k = "base_init"
    /\ pages' = height \div 8
    /\ buffer' = bytearray(pages' * width)
    /\ todo' = init_display_body(width, height, external_vcc, pages') \o Tail(todo)
    /\ UNCHANGED <<cfgvars, temp, write_list, cs, dc, res, reset_log, op, calls,
                   wire, panel, gvars, mvars>>

(***************************************************************************)
(* Steps of SSD1306_SPI: pin writes, sleeps, and the bus write.            *)
(***************************************************************************)
pin_step ==
    /\ todo # << >>
    /\ Head(todo).k \in {"cs", "dc", "res", "cs_init", "dc_init", "res_init"}
    /\ cs' = IF Head(todo).k \in {"cs", "cs_init"} THEN Head(todo).v ELSE cs
    /\ dc' = IF Head(todo).k \in {"dc", "dc_init"} THEN Head(todo).v ELSE dc
    /\ res' = IF Head(todo).k \in {"res", "res_init"} THEN Head(todo).v ELSE res
    /\ reset_log' = IF Head(todo).k \in {"res", "res_init"}
                    THEN Append(reset_log, Head(todo)) ELSE reset_log
    /\ todo' = Tail(todo)
    /\ UNCHANGED <<cfgvars, pages, buffer, temp, write_list, op, calls, wire,
                   panel, gvars, mvars>>

sleep_step ==
    /\ todo # << >> /\ Head(todo).k = "sleep_ms"
    /\ reset_log' = Append(reset_log, Head(todo))
    /\ todo' = Tail(todo)
    /\ UNCHANGED <<cfgvars, pages, buffer, temp, write_list, cs, dc, res, op,
                   calls, wire, panel, gvars, mvars>>

RECURSIVE DecodeAll(_, _)
DecodeAll(p, bytes) ==
    IF bytes = << >> THEN p ELSE DecodeAll(Decode(p, Head(bytes)), Tail(bytes))

spi_write ==
    /\ todo # << >> /\ Head(todo).k \in {"spi_write", "spi_write_buf"}
    /\ LET bytes == IF Head(todo).k = "spi_write" THEN << Head(todo).v >> ELSE buffer
       IN  /\ wire' = Append(wire, [fn |-> "write", data |-> bytes, cs |-> cs, dc |-> dc])
           /\ panel' = IF cs = 0 /\ dc = 0 THEN DecodeAll(panel, bytes) ELSE panel
    /\ todo' = Tail(todo)
    /\ UNCHANGED <<cfgvars, pages, buffer, temp, write_list, cs, dc, res,
                   reset_log, op, calls, gvars, mvars>>

SPI_write_cmd ==
    /\ transport = "SPI"
    /\ todo # << >> /\ Head(todo).k = "cmd"
    /\ calls' = Append(calls, Head(todo))
    /\ todo' = SPI_write_cmd_body(Head(todo).v) \o Tail(todo)
    /\ UNCHANGED <<cfgvars, pages, buffer, temp, write_list, cs, dc, res,
                   reset_log, op, wire, panel, gvars, mvars>>

SPI_write_data ==
    /\ transport = "SPI"
    /\ todo # << >> /\ Head(todo).k = "data"
    /\ calls' = Append(calls, Call("data", buffer))
    /\ todo' = SPI_write_data_body \o Tail(todo)
    /\ UNCHANGED <<cfgvars, pages, buffer, temp, write_list, cs, dc, res,
                   reset_log, op, wire, panel, gvars, mvars>>

(***************************************************************************)
(* SSD1306_I2C.write_cmd and write_data.                                   *)
(***************************************************************************)
\* command sent with the data control byte
I2C_temp_data_prefix(cmd) == << 64, cmd >>

I2C_temp(cmd) == << 128, cmd >>

I2C_write_list(wl, buf) == << wl[1], buf >>

I2C_write_cmd ==
    /\ transport = "I2C"
    /\ todo # << >> /\ Head(todo).k = "cmd"
    /\ calls' = Append(calls, Head(todo))
    /\ temp' = I2C_temp(Head(todo).v)
    /\ wire' = Append(wire, [fn |-> "writeto", addr |-> addr, data |-> temp'])
    /\ panel' = IF temp'[1] = 128 THEN Decode(panel, temp'[2]) ELSE panel
    /\ todo' = Tail(todo)
    /\ UNCHANGED <<cfgvars, pages, buffer, write_list, cs, dc, res, reset_log,
                   op, gvars, mvars>>

I2C_write_data ==
    /\ transport = "I2C"
    /\ todo # << >> /\ Head(todo).k = "data"
    /\ calls' = Append(calls, Call("data", buffer))
    /\ write_list' = I2C_write_list(write_list, buffer)
    /\ wire' = Append(wire, [fn |-> "writevto", addr |-> addr, data |-> write_list'])
    /\ panel' = IF write_list'[1] = <<128>> /\ Len(write_list'[2]) > 0
                THEN Decode(panel, write_list'[2][1]) ELSE panel
    /\ todo' = Tail(todo)
    /\ UNCHANGED <<cfgvars, pages, buffer, temp, cs, dc, res, reset_log, op, gvars, mvars>>

(***************************************************************************)
(* self.fill(0) inside init_display.                                       *)
(***************************************************************************)
fill_step ==
    /\ todo # << >> /\ Head(todo).k = "fill"
    /\ buffer' = fb_fill(buffer, Head(todo).v)
    /\ calls' = Append(calls, Head(todo))
    /\ todo' = Tail(todo)
    /\ UNCHANGED <<cfgvars, pages, temp, write_list, cs, dc, res, reset_log, op,
                   wire, panel, gvars, mvars>>

(***************************************************************************)
(* Public calls on a constructed controller.                               *)
(***************************************************************************)
Begin(name, arg, body) ==
    /\ Idle
    /\ op' = [name |-> name, arg |-> arg]
    /\ todo' = body
    /\ calls' = << >>
    /\ wire' = << >>
    /\ UNCHANGED <<cfgvars, pages, buffer, temp, write_list, cs, dc, res,
                   reset_log, panel, gvars, mvars>>

poweroff == Begin("poweroff", << >>, poweroff_body)

poweron == Begin("poweron", << >>, poweron_body)

contrast == \E c \in Contrasts : Begin("contrast", <<c>>, contrast_body(c))

invert == \E i \in Flags : Begin("invert", <<i>>, invert_body(i))

rotate == \E r \in Flags : Begin("rotate", <<r>>, rotate_body(r))

show == Begin("show", << >>, show_body(width, pages))

PixelPoints(w, h) == { <<w - 1, h - 1>>, <<w, 0>> }

pixel ==
    \E pt \in PixelPoints(width, height), c \in Colors :
        /\ Idle
        /\ op' = [name |-> "pixel", arg |-> <<pt[1], pt[2], c>>]
        /\ buffer' = fb_pixel(buffer, width, height, pt[1], pt[2], c)
        /\ calls' = << >>
        /\ wire' = << >>
        /\ UNCHANGED <<cfgvars, pages, temp, write_list, cs, dc, res, reset_log,
                       todo, panel, gvars, mvars>>

fill ==
    \E c \in Colors :
        /\ Idle
        /\ op' = [name |-> "fill", arg |-> <<c>>]
        /\ buffer' = fb_fill(buffer, c)
        /\ calls' = << >>
        /\ wire' = << >>
        /\ UNCHANGED <<cfgvars, pages, temp, write_list, cs, dc, res, reset_log,
                       todo, panel, gvars, mvars>>

Next ==
    \/ SSD1306_I2C_init
    \/ SSD1306_SPI_init
    \/ SSD1306_init
    \/ pin_step
    \/ sleep_step
    \/ spi_write
    \/ SPI_write_cmd
    \/ SPI_write_data
    \/ I2C_write_cmd
    \/ I2C_write_data
    \/ fill_step
    \/ poweroff
    \/ poweron
    \/ contrast
    \/ invert
    \/ rotate
    \/ show
    \/ pixel
    \/ fill

Spec == Init /\ [][Next]_vars

TypeOK ==
    /\ width \in Widths /\ height \in Heights
    /\ cs \in {-1, 0, 1} /\ dc \in {-1, 0, 1} /\ res \in {-1, 0, 1}
    /\ Len(buffer) = pages * width
    /\ panel.pending \in 0..2

(***************************************************************************)
(* Construction alone, for heights that need not be a multiple of 8.       *)
(***************************************************************************)
CtorHeights == {8, 12, 16, 20, 32}

CInit ==
    /\ width \in Widths
    /\ height \in CtorHeights
    /\ external_vcc \in BOOLEAN
    /\ transport \in Transports
    /\ addr \in (IF transport = "I2C" THEN Addrs ELSE {-1})
    /\ pages = 0
    /\ buffer = << >>
    /\ temp = << >>
    /\ write_list = << >>
    /\ cs \in (IF transport = "SPI" THEN {0, 1} ELSE {-1})
    /\ dc \in (IF transport = "SPI" THEN {0, 1} ELSE {-1})
    /\ res \in (IF transport = "SPI" THEN {0, 1} ELSE {-1})
    /\ reset_log = << >>
    /\ op = [name |-> "new", arg |-> << >>]
    /\ todo = << >>
    /\ calls = << >>
    /\ wire = << >>
    /\ panel = [pending |-> 0, com |-> 0, seg |-> 0]
    /\ g_call = [name |-> "none", arg |-> << >>]
    /\ g_pixels = << >>
    /\ g_width = 0
    /\ g_height = 0
    /\ g_raised = "none"
    /\ font = << >>
    /\ NoMultiplexer

CNext ==
    \/ SSD1306_I2C_init
    \/ SSD1306_SPI_init
    \/ SSD1306_init
    \/ pin_step
    \/ sleep_step
    \/ spi_write
    \/ SPI_write_cmd
    \/ SPI_write_data
    \/ I2C_write_cmd
    \/ I2C_write_data
    \/ fill_step

SpecCtor == CInit /\ [][CNext]_vars

(***************************************************************************)
(* Properties of the controller, checked under Spec.                       *)
(***************************************************************************)
IsCmd(c, v) == c.k = "cmd" /\ c.v = v

Tx(cs_) == SelectSeq(cs_, LAMBDA c : c.k \in {"cmd", "data"})

Completed(name) == op.name = name /\ todo = << >>

\* C1: every data transfer is the 7th of a run SET_COL_ADDR (0x21), x0, x1,
\* SET_PAGE_ADDR (0x22), 0, pages-1, data, with nothing in between, and it
\* carries the entire pixel buffer; a completed show() made exactly these 7
\* transmissions, on the bus as well.
C1_WindowBeforeEveryData ==
    /\ \A i \in 1..Len(calls) :
          calls[i].k = "data" =>
              /\ i >= 7
              /\ \A j \in 1..6 : calls[i - j].k = "cmd"
              /\ calls[i - 6].v = 33
              /\ calls[i - 4].v - calls[i - 5].v = width - 1
              /\ calls[i - 3].v = 34
              /\ calls[i - 2].v = 0
              /\ calls[i - 1].v = pages - 1
              /\ calls[i].v = buffer
    /\ Completed("show") =>
          /\ Len(calls) = 7 /\ calls[7].k = "data"
          /\ Len(wire) = 7
          /\ \A i \in 1..6 : wire[i].data[Len(wire[i].data)] = calls[i].v
          /\ wire[7].data = IF transport = "I2C" THEN << <<64>>, buffer >> ELSE buffer

C1_Witness ==
    /\ Completed("show") /\ Len(calls) = 7 /\ calls[7].k = "data"
    /\ \E i \in 1..Len(buffer) : buffer[i] # 0

\* C2: the window sent before a data transfer is columns [0, 127] for
\* width 128 and [(128-W)/2, (128-W)/2 + W-1] otherwise ([32, 95] for 64),
\* pages [0, P-1], and (x1-x0+1) * P is the length of the data streamed.
C2_WindowBoundsBuffer ==
    \A i \in 1..Len(calls) :
        calls[i].k = "data" =>
            LET x0 == calls[i - 5].v
                x1 == calls[i - 4].v
                p0 == calls[i - 2].v
                p1 == calls[i - 1].v
            IN  /\ width = 128 => x0 = 0 /\ x1 = 127
                /\ width < 128 => /\ 2 * x0 = 128 - width
                                  /\ x1 = x0 + width - 1
                /\ width = 64 => x0 = 32 /\ x1 = 95
                /\ width = 96 => x0 = 16 /\ x1 = 111
                /\ p0 = 0 /\ p1 = pages - 1
                /\ (x1 - x0 + 1) * (p1 - p0 + 1) = Len(calls[i].v)
                /\ Len(calls[i].v) = Len(buffer)

C2_Witness ==
    /\ Completed("show") /\ width = 64 /\ height = 32
    /\ Len(calls) = 7 /\ Len(calls[7].v) = 256

\* C3: construction sends display-off first, then the init commands in the
\* stated order up to display-on as the 27th; nothing before display-on is
\* a data transfer; then the buffer is cleared and one show() is performed.
C3_InitOrder(w, h, ext) ==
    << 174, 32, 0, 64, 161, 168, h - 1, 200, 211, 0, 218,
       IF w > 2 * h THEN 2 ELSE 18, 213, 128, 217, IF ext THEN 34 ELSE 241,
       219, 48, 129, 255, 164, 166, 173, 48, 141, IF ext THEN 16 ELSE 20, 175 >>

C3_InitSequence ==
    op.name = "__init__" =>
        /\ \A i \in 1..Len(calls) :
              /\ i <= 27 => IsCmd(calls[i], C3_InitOrder(width, height, external_vcc)[i])
              /\ i = 28 => calls[i] = Call("fill", 0)
              /\ i \in 29..34 => calls[i].k = "cmd"
              /\ i = 29 => calls[i].v = 33
              /\ i = 32 => calls[i].v = 34
              /\ i = 35 => calls[i].k = "data"
              /\ i <= 35
        /\ Len(calls) >= 28 => \A i \in 1..Len(buffer) : buffer[i] = 0
        /\ todo = << >> => Len(calls) = 35 /\ Len(wire) = 34

C3_Witness ==
    /\ Completed("__init__") /\ Len(calls) = 35
    /\ width = 128 /\ height = 32 /\ transport = "SPI"

\* C4: in the init sequence the byte after SET_PRECHARGE (0xD9) is 0xF1 and
\* the byte after SET_CHARGE_PUMP (0x8D) is 0x14 without external power, and
\* 0x22 and 0x10 with it, for every geometry.
C4_PowerBytes ==
    op.name = "__init__" =>
        /\ \A i \in 1..(Len(calls) - 1) :
              /\ IsCmd(calls[i], 217) =>
                    IsCmd(calls[i + 1], IF external_vcc THEN 34 ELSE 241)
              /\ IsCmd(calls[i], 141) =>
                    IsCmd(calls[i + 1], IF external_vcc THEN 16 ELSE 20)
        /\ todo = << >> =>
              /\ \E i \in 1..Len(calls) : IsCmd(calls[i], 217)
              /\ \E i \in 1..Len(calls) : IsCmd(calls[i], 141)

C4_Witness ==
    /\ Completed("__init__") /\ external_vcc /\ width = 128 /\ height = 64
    /\ \E i \in 1..Len(calls) : IsCmd(calls[i], 141)

\* C5 (as claimed): during construction the pixel buffer is cleared before
\* the display-on command is transmitted.
C5_ClearedBeforeDisplayOn ==
    op.name = "__init__" =>
        \A i \in 1..Len(calls) :
            IsCmd(calls[i], 175) => \E j \in 1..(i - 1) : calls[j].k = "fill"

\* C5 (amended): during construction the pixel buffer is cleared right after
\* the display-on command is transmitted and before the first data transfer:
\* power off, configuration, power on, buffer cleared, first show.
C5_ClearedAfterDisplayOn ==
    op.name = "__init__" =>
        /\ \A i \in 1..Len(calls) :
              /\ calls[i].k = "fill" =>
                    /\ i > 1
                    /\ IsCmd(calls[i - 1], 175)
                    /\ IsCmd(calls[1], 174)
                    /\ \A j \in 1..(i - 1) : calls[j].k = "cmd"
              /\ calls[i].k = "data" =>
                    \E j \in 1..(i - 1) : calls[j] = Call("fill", 0)
        /\ todo = << >> => \E i \in 1..Len(calls) : calls[i].k = "fill"

C5_Witness ==
    /\ op.name = "__init__"
    /\ Len(calls) = 28 /\ calls[28].k = "fill" /\ IsCmd(calls[27], 175)

\* C6: on SPI the reset pulse (res 1, wait 1, res 0, wait 10, res 1) is made
\* once, in the constructor, and is complete before the first command byte;
\* each bus write happens with chip-select low and with D/C low for a
\* command, high for data; D/C is set while chip-select is high; chip-select
\* is low only around the bus write and is high after every write_cmd and
\* write_data.
C6_ResetPulse ==
    << Call("res_init", 0), Call("res", 1), Call("sleep_ms", 1),
       Call("res", 0), Call("sleep_ms", 10), Call("res", 1) >>

C6_SpiFraming ==
    transport = "SPI" =>
        /\ (Len(calls) > 0 \/ Len(wire) > 0 \/ Idle) => reset_log = C6_ResetPulse
        /\ Len(reset_log) <= 6
        /\ Len(wire) <= Len(Tx(calls))
        /\ Idle => Len(wire) = Len(Tx(calls))
        /\ \A i \in 1..Len(wire) :
              /\ wire[i].cs = 0
              /\ wire[i].dc = IF Tx(calls)[i].k = "cmd" THEN 0 ELSE 1
              /\ wire[i].data = IF Tx(calls)[i].k = "cmd"
                                THEN << Tx(calls)[i].v >> ELSE Tx(calls)[i].v
        /\ (todo # << >> /\ Head(todo).k = "dc") => cs = 1
        /\ (Idle \/ (todo # << >> /\ Head(todo).k \in {"cmd", "data", "fill", "base_init"}))
              => cs = 1
        /\ (op.name # "new" /\ cs = 0) =>
              /\ todo # << >>
              /\ \/ Head(todo).k \in {"dc_init", "res_init", "cs_init",
                                      "spi_write", "spi_write_buf"}
                 \/ Head(todo) = Call("cs", 1)

C6_Witness ==
    /\ transport = "SPI" /\ Completed("show")
    /\ Len(wire) = 7 /\ wire[7].dc = 1 /\ wire[1].dc = 0 /\ cs = 1

\* C7: on I2C every write_cmd(cmd) is one writeto of [0x80, cmd] to the
\* configured address and every write_data(buf) is one write of 0x40 followed
\* by buf to the same address.
C7_I2cFraming ==
    transport = "I2C" =>
        /\ Len(wire) = Len(Tx(calls))
        /\ \A i \in 1..Len(wire) :
              /\ wire[i].addr = addr
              /\ Tx(calls)[i].k = "cmd" =>
                    /\ wire[i].fn = "writeto"
                    /\ wire[i].data = << 128, Tx(calls)[i].v >>
              /\ Tx(calls)[i].k = "data" =>
                    /\ wire[i].fn = "writevto"
                    /\ wire[i].data[1] \o wire[i].data[2] = <<64>> \o Tx(calls)[i].v

C7_Witness ==
    /\ transport = "I2C" /\ addr = 61 /\ Completed("show")
    /\ Len(wire) = 7 /\ wire[7].fn = "writevto"
    /\ \E i \in 1..Len(buffer) : buffer[i] # 0

\* C8: rotate(flag) sends COM output direction with bit 3 = flag & 1, then
\* segment remap with bit 0 = flag & 1; whenever no call is in progress the
\* last COM direction bit and the last segment remap bit received are equal.
C8_RotateTogether ==
    /\ Idle => panel.com = panel.seg
    /\ Completed("rotate") =>
          /\ calls = << Cmd(192 + 8 * (op.arg[1] % 2)), Cmd(160 + (op.arg[1] % 2)) >>
          /\ panel.com = op.arg[1] % 2

C8_Witness ==
    /\ Completed("rotate") /\ op.arg = <<2>>
    /\ panel.com = 0 /\ panel.seg = 0

\* C9: poweroff, poweron, invert transmit one command, contrast 0x81 then the
\* level, rotate two commands; none of them makes a data transfer or changes
\* the buffer; drawing makes no bus traffic; a data transfer happens only in
\* show() (also the one of the constructor), and show() leaves the buffer
\* unchanged.
C9_CommandOps == {"poweroff", "poweron", "contrast", "invert", "rotate"}

C9_FrameEffects ==
    [][ /\ op'.name \in (C9_CommandOps \cup {"show"}) => buffer' = buffer
        /\ op'.name \in C9_CommandOps =>
              /\ \A i \in 1..Len(calls') : calls'[i].k = "cmd"
              /\ \A i \in 1..Len(wire') :
                    IF transport = "I2C" THEN wire'[i].fn = "writeto"
                                         ELSE wire'[i].dc = 0
        /\ op'.name \in {"pixel", "fill"} =>
              wire' = << >> /\ calls' = << >> /\ todo' = << >>
        /\ (\E i \in 1..Len(calls') : calls'[i].k = "data") =>
              op'.name \in {"show", "__init__"}
        /\ (todo' = << >> /\ op'.name = "poweroff") => calls' = << Cmd(174) >>
        /\ (todo' = << >> /\ op'.name = "poweron") => calls' = << Cmd(175) >>
        /\ (todo' = << >> /\ op'.name = "invert") =>
              calls' = << Cmd(166 + (op'.arg[1] % 2)) >>
        /\ (todo' = << >> /\ op'.name = "contrast") =>
              calls' = << Cmd(129), Cmd(op'.arg[1]) >>
        /\ (todo' = << >> /\ op'.name = "rotate") => Len(calls') = 2
        /\ (todo' = << >> /\ op'.name \in C9_CommandOps) => Len(wire') = Len(calls')
      ]_vars

C9_Witness ==
    /\ Completed("contrast") /\ op.arg = <<200>>
    /\ Len(wire) = 2
    /\ \E i \in 1..Len(buffer) : buffer[i] # 0

(***************************************************************************)
(* Properties of the constructor, checked under SpecCtor.                  *)
(***************************************************************************)
\* C15: for every height H, also one that is not a multiple of 8, the page
\* count is ceil(H/8) and the buffer holds width * pages bytes, so that every
\* row y in [0, H) has a page.
C15_PagesCeil ==
    Len(calls) > 0 =>
        /\ 8 * pages >= height
        /\ 8 * pages < height + 8
        /\ Len(buffer) = width * pages
        /\ \A y \in 0..(height - 1) : y \div 8 < pages

(***************************************************************************)
(* Graphics.line: the _pixel calls it makes, in order.                     *)
(***************************************************************************)
MaxCoord == 3
Coords == (0 - MaxCoord)..MaxCoord

abs(a) == IF a < 0 THEN 0 - a ELSE a

\* axes never transposed
line_steep_never(x0, y0, x1, y1) == <<x0, y0, x1, y1>>

line_steep(x0, y0, x1, y1) ==
    IF abs(y1 - y0) > abs(x1 - x0) THEN <<y0, x0, y1, x1>> ELSE <<x0, y0, x1, y1>>

\* end points ordered by x without taking y along
line_swap_x_only(x0, y0, x1, y1) ==
    IF x0 > x1 THEN <<x1, y0, x0, y1>> ELSE <<x0, y0, x1, y1>>

line_swap(x0, y0, x1, y1) ==
    IF x0 > x1 THEN <<x1, y1, x0, y0>> ELSE <<x0, y0, x1, y1>>

RECURSIVE line_loop(_, _, _, _, _, _, _, _)
line_loop(x0, y0, x1, dx, dy, err, ystep, steep) ==
    IF x0 <= x1
    THEN LET e == err - dy
         IN  << IF steep THEN <<y0, x0>> ELSE <<x0, y0>> >>
                 \o line_loop(x0 + 1,
                              IF e < 0 THEN y0 + ystep ELSE y0,
                              x1, dx, dy,
                              IF e < 0 THEN e + dx ELSE e,
                              ystep, steep)
    ELSE << >>

line(x0, y0, x1, y1) ==
    LET steep == abs(y1 - y0) > abs(x1 - x0)
        t == line_steep(x0, y0, x1, y1)
        s == line_swap(t[1], t[2], t[3], t[4])
        dx == s[3] - s[1]
        dy == abs(s[4] - s[2])
        ystep == IF s[2] < s[4] THEN 1 ELSE 0 - 1
    IN  line_loop(s[1], s[2], s[3], dx, dy, dx \div 2, ystep, steep)

PixelSet(ps) == { ps[i] : i \in 1..Len(ps) }

(***************************************************************************)
(* Graphics.hline, vline, rect, fill_rect: the _pixel calls they make.     *)
(* gw, gh are Graphics.width and Graphics.height.                          *)
(***************************************************************************)
\* horizontal line without the pre-check
hline_unchecked(gw, gh, x0, y0, w) == [i \in 1..w |-> <<x0 + (i - 1), y0>>]

hline(gw, gh, x0, y0, w) ==
    IF y0 < 0 \/ y0 > gh \/ x0 < 0 - w \/ x0 > gw
    THEN << >>
    ELSE [i \in 1..w |-> <<x0 + (i - 1), y0>>]

vline(gw, gh, x0, y0, h) ==
    IF y0 < 0 - h \/ y0 > gh \/ x0 < 0 \/ x0 > gw
    THEN << >>
    ELSE [i \in 1..h |-> <<x0, y0 + (i - 1)>>]

rect(gw, gh, x0, y0, w, h) ==
    IF y0 < 0 - h \/ y0 > gh \/ x0 < 0 - w \/ x0 > gw
    THEN << >>
    ELSE hline(gw, gh, x0, y0, w) \o hline(gw, gh, x0, y0 + h - 1, w)
            \o vline(gw, gh, x0, y0, h) \o vline(gw, gh, x0 + w - 1, y0, h)

RECURSIVE fill_rect_loop(_, _, _, _, _, _)
fill_rect_loop(gw, gh, i, stop, y0, h) ==
    IF i < stop
    THEN vline(gw, gh, i, y0, h) \o fill_rect_loop(gw, gh, i + 1, stop, y0, h)
    ELSE << >>

\* one column too many
fill_rect_extra_column(gw, gh, x0, y0, w, h) ==
    IF y0 < 0 - h \/ y0 > gh \/ x0 < 0 - w \/ x0 > gw
    THEN << >>
    ELSE fill_rect_loop(gw, gh, x0, x0 + w + 1, y0, h)

fill_rect(gw, gh, x0, y0, w, h) ==
    IF y0 < 0 - h \/ y0 > gh \/ x0 < 0 - w \/ x0 > gw
    THEN << >>
    ELSE fill_rect_loop(gw, gh, x0, x0 + w, y0, h)

(***************************************************************************)
(* Graphics.circle and fill_circle.                                        *)
(***************************************************************************)
circle_axis(x0, y0, r) ==
    << <<x0, y0 + r>>, <<x0, y0 - r>>, <<x0 + r, y0>>, <<x0 - r, y0>> >>

\* fourth mirror image repeats the second one
circle_octants_lost_mirror(x0, y0, x, y) ==
    << <<x0 + x, y0 + y>>, <<x0 - x, y0 + y>>, <<x0 + x, y0 - y>>, <<x0 - x, y0 + y>>,
       <<x0 + y, y0 + x>>, <<x0 - y, y0 + x>>, <<x0 + y, y0 - x>>, <<x0 - y, y0 - x>> >>

circle_octants(x0, y0, x, y) ==
    << <<x0 + x, y0 + y>>, <<x0 - x, y0 + y>>, <<x0 + x, y0 - y>>, <<x0 - x, y0 - y>>,
       <<x0 + y, y0 + x>>, <<x0 - y, y0 + x>>, <<x0 + y, y0 - x>>, <<x0 - y, y0 - x>> >>

RECURSIVE circle_loop(_, _, _, _, _, _, _)
circle_loop(x0, y0, x, y, f, ddF_x, ddF_y) ==
    IF x < y
    THEN LET y1 == IF f >= 0 THEN y - 1 ELSE y
             ddy == IF f >= 0 THEN ddF_y + 2 ELSE ddF_y
             f1 == IF f >= 0 THEN f + ddy ELSE f
             x1 == x + 1
             ddx == ddF_x + 2
         IN  circle_octants(x0, y0, x1, y1)
                 \o circle_loop(x0, y0, x1, y1, f1 + ddx, ddx, ddy)
    ELSE << >>

circle(x0, y0, r) ==
    circle_axis(x0, y0, r) \o circle_loop(x0, y0, 0, r, 1 - r, 1, 0 - 2 * r)

\* spans one pixel short
fill_circle_spans_short(gw, gh, x0, y0, x, y) ==
    vline(gw, gh, x0 + x, y0 - y, 2 * y)
        \o vline(gw, gh, x0 + y, y0 - x, 2 * x)
        \o vline(gw, gh, x0 - x, y0 - y, 2 * y)
        \o vline(gw, gh, x0 - y, y0 - x, 2 * x)

fill_circle_spans(gw, gh, x0, y0, x, y) ==
    vline(gw, gh, x0 + x, y0 - y, 2 * y + 1)
        \o vline(gw, gh, x0 + y, y0 - x, 2 * x + 1)
        \o vline(gw, gh, x0 - x, y0 - y, 2 * y + 1)
        \o vline(gw, gh, x0 - y, y0 - x, 2 * x + 1)

RECURSIVE fill_circle_loop(_, _, _, _, _, _, _, _, _)
fill_circle_loop(gw, gh, x0, y0, x, y, f, ddF_x, ddF_y) ==
    IF x < y
    THEN LET y1 == IF f >= 0 THEN y - 1 ELSE y
             ddy == IF f >= 0 THEN ddF_y + 2 ELSE ddF_y
             f1 == IF f >= 0 THEN f + ddy ELSE f
             x1 == x + 1
             ddx == ddF_x + 2
         IN  fill_circle_spans(gw, gh, x0, y0, x1, y1)
                 \o fill_circle_loop(gw, gh, x0, y0, x1, y1, f1 + ddx, ddx, ddy)
    ELSE << >>

fill_circle(gw, gh, x0, y0, r) ==
    vline(gw, gh, x0, y0 - r, 2 * r + 1)
        \o fill_circle_loop(gw, gh, x0, y0, 0, r, 1 - r, 1, 0 - 2 * r)

(***************************************************************************)
(* Graphics.triangle.                                                      *)
(***************************************************************************)
triangle(x0, y0, x1, y1, x2, y2) ==
    line(x0, y0, x1, y1) \o line(x1, y1, x2, y2) \o line(x2, y2, x0, y0)


(***************************************************************************)
(* Graphics.fill_triangle.  The result is the _pixel calls made and the    *)
(* exception that ended the call ("none" when it returned).                *)
(***************************************************************************)
ft_sort(x0, y0, x1, y1, x2, y2) ==
    LET s1 == IF y0 > y1 THEN <<x1, y1, x0, y0, x2, y2>> ELSE <<x0, y0, x1, y1, x2, y2>>
        s2 == IF s1[4] > s1[6] THEN <<s1[1], s1[2], s1[5], s1[6], s1[3], s1[4]>> ELSE s1
    IN  IF s2[2] > s2[4] THEN <<s2[3], s2[4], s2[1], s2[2], s2[5], s2[6]>> ELSE s2

\* third vertex left out of the span
ft_flat_span_two_vertices(x0, x1, x2) ==
    <<IF x1 < x0 THEN x1 ELSE x0, IF x1 > x0 THEN x1 ELSE x0>>

ft_flat_span(x0, x1, x2) ==
    LET a1 == IF x1 < x0 THEN x1 ELSE x0
        b1 == IF x1 < x0 THEN x0 ELSE IF x1 > x0 THEN x1 ELSE x0
        a2 == IF x2 < a1 THEN x2 ELSE a1
        b2 == IF x2 < a1 THEN b1 ELSE IF x2 > b1 THEN x2 ELSE b1
    IN  <<a2, b2>>

\* zero height of an edge not replaced
ft_guard_none(dy) == dy

ft_guard(dy) == IF dy = 0 THEN 1 ELSE dy

ft_last(y1, y2) == IF y1 = y2 THEN y1 ELSE y1 - 1

\* the value of the loop variable y after "for y in range(y0, last + 1)";
\* y was set to 0 before and keeps that value when the range is empty
ft_y_after(y0, last) == IF y0 <= last THEN last ELSE 0

ft_row(gw, gh, a, b, y) ==
    IF a > b THEN hline(gw, gh, b, y, a - b + 1) ELSE hline(gw, gh, a, y, b - a + 1)

\* rows y..stop between the edge from (xa, .) with accumulator sa / dya and
\* the edge from (xb, .) with accumulator sb / dyb
RECURSIVE ft_sweep(_, _, _, _, _, _, _, _, _, _, _, _)
ft_sweep(gw, gh, y, stop, xa, sa, dxa, dya, xb, sb, dxb, dyb) ==
    IF y > stop THEN [pixels |-> << >>, raised |-> "none"]
    ELSE IF dya = 0 \/ dyb = 0 THEN [pixels |-> << >>, raised |-> "ZeroDivisionError"]
    ELSE LET a == xa + (sa \div dya)
             b == xb + (sb \div dyb)
             rest == ft_sweep(gw, gh, y + 1, stop, xa, sa + dxa, dxa, dya,
                              xb, sb + dxb, dxb, dyb)
         IN  [pixels |-> ft_row(gw, gh, a, b, y) \o rest.pixels, raised |-> rest.raised]

fill_triangle(gw, gh, ax, ay, bx, by, cx, cy) ==
    LET s == ft_sort(ax, ay, bx, by, cx, cy)
        x0 == s[1]
        y0 == s[2]
        x1 == s[3]
        y1 == s[4]
        x2 == s[5]
        y2 == s[6]
    IN  IF y0 = y2
        THEN LET ab == ft_flat_span(x0, x1, x2)
             IN  [pixels |-> hline(gw, gh, ab[1], y0, ab[2] - ab[1] + 1), raised |-> "none"]
        ELSE LET dx01 == x1 - x0
                 dy01 == ft_guard(y1 - y0)
                 dx02 == x2 - x0
                 dy02 == ft_guard(y2 - y0)
                 dx12 == x2 - x1
                 dy12 == ft_guard(y2 - y1)
                 last == ft_last(y1, y2)
                 upper == ft_sweep(gw, gh, y0, last, x0, 0, dx01, dy01, x0, 0, dx02, dy02)
                 y == ft_y_after(y0, last)
                 lower == ft_sweep(gw, gh, y, y2, x1, dx12 * (y - y1), dx12, dy12,
                                   x0, dx02 * (y - y0), dx02, dy02)
             IN  IF upper.raised # "none" THEN upper
                 ELSE [pixels |-> upper.pixels \o lower.pixels, raised |-> lower.raised]

(***************************************************************************)
(* The pixel sink behind Graphics._pixel: a pixel outside [0,W) x [0,H) is *)
(* ignored.  OnCanvas is what a cleared canvas shows after the calls.      *)
(***************************************************************************)
InCanvas(gw, gh, pt) == pt[1] >= 0 /\ pt[1] < gw /\ pt[2] >= 0 /\ pt[2] < gh

Visible(gw, gh, S) == { pt \in S : InCanvas(gw, gh, pt) }

OnCanvas(gw, gh, ps) == Visible(gw, gh, PixelSet(ps))

(***************************************************************************)
(* Graphics on its own: the arguments of one call are chosen initially and *)
(* the call is made; no controller is involved.                            *)
(***************************************************************************)
MaxRadius == 5
MaxThird == 2
Thirds == (0 - MaxThird)..MaxThird
GfxCanvas == <<3, 2>>

NoController ==
    /\ width = 128 /\ height = 64 /\ external_vcc = FALSE
    /\ transport = "I2C" /\ addr = SSD1306_ADDRESS
    /\ pages = 0 /\ buffer = << >> /\ temp = << >> /\ write_list = << >>
    /\ cs = 0 - 1 /\ dc = 0 - 1 /\ res = 0 - 1
    /\ reset_log = << >>
    /\ op = [name |-> "new", arg |-> << >>]
    /\ todo = << >> /\ calls = << >> /\ wire = << >>
    /\ panel = [pending |-> 0, com |-> 0, seg |-> 0]

GInputs ==
    { [w |-> GfxCanvas[1], h |-> GfxCanvas[2], arg |-> <<a, b, c, d>>] :
          a \in Coords, b \in Coords, c \in Coords, d \in Coords }
      \cup { [w |-> 128, h |-> 32, arg |-> <<10, 5, 20, 10>>] }

GInit ==
    /\ NoController
    /\ \E i \in GInputs :
          /\ g_call = [name |-> "none", arg |-> i.arg]
          /\ g_width = i.w
          /\ g_height = i.h
    /\ g_pixels = << >>
    /\ g_raised = "none"
    /\ font = << >>
    /\ NoMultiplexer

ctlvars == <<cfgvars, pages, buffer, temp, write_list, cs, dc, res, reset_log,
             op, todo, calls, wire, panel>>

Graphics_line ==
    /\ g_call.name = "none"
    /\ g_call' = [g_call EXCEPT !.name = "line"]
    /\ g_pixels' = line(g_call.arg[1], g_call.arg[2], g_call.arg[3], g_call.arg[4])
    /\ UNCHANGED <<cfgvars, pages, buffer, temp, write_list, cs, dc, res,
                   reset_log, op, todo, calls, wire, panel>>
    /\ UNCHANGED <<g_width, g_height, g_raised, font, mvars>>

\* a call that returns: name, its arguments, the _pixel calls it made
Returns(name, arg, ps) ==
    /\ g_call.name = "none"
    /\ g_call' = [name |-> name, arg |-> arg]
    /\ g_pixels' = ps
    /\ UNCHANGED <<ctlvars, mvars, g_width, g_height, g_raised, font>>

Graphics_hline ==
    LET a == g_call.arg
    IN  Returns("hline", <<a[1], a[2], a[3]>>, hline(g_width, g_height, a[1], a[2], a[3]))

Graphics_vline ==
    LET a == g_call.arg
    IN  Returns("vline", <<a[1], a[2], a[3]>>, vline(g_width, g_height, a[1], a[2], a[3]))

Graphics_rect ==
    LET a == g_call.arg
    IN  Returns("rect", a, rect(g_width, g_height, a[1], a[2], a[3], a[4]))

Graphics_fill_rect ==
    LET a == g_call.arg
    IN  Returns("fill_rect", a, fill_rect(g_width, g_height, a[1], a[2], a[3], a[4]))

Graphics_circle ==
    \E r \in 0..MaxRadius :
        LET a == g_call.arg
        IN  Returns("circle", <<a[1], a[2], r>>, circle(a[1], a[2], r))

Graphics_fill_circle ==
    \E r \in 0..MaxRadius :
        LET a == g_call.arg
        IN  Returns("fill_circle", <<a[1], a[2], r>>,
                    fill_circle(g_width, g_height, a[1], a[2], r))

Graphics_triangle ==
    \E x2 \in Thirds, y2 \in Thirds :
        LET a == g_call.arg
        IN  Returns("triangle", <<a[1], a[2], a[3], a[4], x2, y2>>,
                    triangle(a[1], a[2], a[3], a[4], x2, y2))

Graphics_fill_triangle ==
    \E x2 \in Thirds, y2 \in Thirds :
        LET a == g_call.arg
            t == fill_triangle(g_width, g_height, a[1], a[2], a[3], a[4], x2, y2)
        IN  /\ g_call.name = "none"
            /\ g_call' = [name |-> "fill_triangle", arg |-> <<a[1], a[2], a[3], a[4], x2, y2>>]
            /\ g_pixels' = t.pixels
            /\ g_raised' = t.raised
            /\ UNCHANGED <<ctlvars, mvars, g_width, g_height, font>>

GNext ==
    \/ Graphics_line
    \/ Graphics_hline
    \/ Graphics_vline
    \/ Graphics_rect
    \/ Graphics_fill_rect
    \/ Graphics_circle
    \/ Graphics_fill_circle
    \/ Graphics_triangle
    \/ Graphics_fill_triangle

SpecGfx == GInit /\ [][GNext]_vars

(***************************************************************************)
(* FontWriter.text and FontWriter.char: the buffer.pixel(col, row, color)  *)
(* calls made, and the exception that ended the call.  A palette entry     *)
(* None is written NoColor.                                                *)
(***************************************************************************)
NoColor == 0 - 1

default_colors(color, bgcolor, colors) ==
    IF colors = << >> THEN <<color, color, bgcolor, bgcolor>> ELSE colors

RECURSIVE glyph_row(_, _, _, _, _)
glyph_row(col, stop, row, unsalted, colors) ==
    IF col < stop
    THEN LET color == colors[BitAnd(unsalted, 3) + 1]
         IN  (IF color # NoColor THEN << <<col, row, color>> >> ELSE << >>)
                 \o glyph_row(col + 1, stop, row, unsalted \div 4, colors)
    ELSE << >>

RECURSIVE glyph_rows(_, _, _, _, _)
glyph_rows(bytes, x, w, row, colors) ==
    IF bytes = << >> THEN << >>
    ELSE glyph_row(x, x + w, row, Head(bytes), colors)
             \o glyph_rows(Tail(bytes), x, w, row + 1, colors)

\* the width entry taken for the first row of the glyph
draw_glyph_width_as_row(g, x, y, colors) == glyph_rows(g, x, g[1], y, colors)

draw_glyph(g, x, y, colors) == glyph_rows(Tail(g), x, g[1], y, colors)

\* "if not ord(c) in font.keys(): c = '?'"
text_code(fnt, c) == IF c \notin DOMAIN fnt THEN 63 ELSE c

RECURSIVE text_loop(_, _, _, _, _)
text_loop(fnt, string, x, y, colors) ==
    IF string = << >> THEN [pixels |-> << >>, raised |-> "none"]
    ELSE LET c == text_code(fnt, Head(string))
         IN  IF c \notin DOMAIN fnt
             THEN [pixels |-> << >>, raised |-> "KeyError"]
             ELSE LET rest == text_loop(fnt, Tail(string), x + fnt[c][1], y, colors)
                  IN  [pixels |-> draw_glyph(fnt[c], x, y, colors) \o rest.pixels,
                       raised |-> rest.raised]

text(fnt, string, x, y, color, bgcolor, colors) ==
    text_loop(fnt, string, x, y, default_colors(color, bgcolor, colors))

char(fnt, c, x, y, color, bgcolor, colors) ==
    IF c \notin DOMAIN fnt
    THEN [pixels |-> << >>, raised |-> "none"]
    ELSE [pixels |-> draw_glyph(fnt[c], x, y, default_colors(color, bgcolor, colors)),
          raised |-> "none"]

(***************************************************************************)
(* FontWriter on its own: a font and the arguments of one call are chosen  *)
(* initially.  Characters are character codes; 90 is in neither font.      *)
(***************************************************************************)
MaxLen == 2

FontPlain == (65 :> <<2, 6, 9>>) @@ (66 :> <<1, 3, 0, 1>>)

FontFallback == FontPlain @@ (63 :> <<3, 27>>)

Fonts == {FontPlain, FontFallback}

Strings == UNION { [1..n -> {65, 66, 90}] : n \in 0..MaxLen }

Palettes == { << >>, <<1, NoColor, 0, 2>> }

FInit ==
    /\ NoController
    /\ font \in Fonts
    /\ g_call \in { [name |-> "none",
                     arg |-> [string |-> st, x |-> x, y |-> 1, color |-> 1,
                              bgcolor |-> 0, colors |-> pal]] :
                        st \in Strings, x \in {0, 2}, pal \in Palettes }
    /\ g_pixels = << >>
    /\ g_raised = "none"
    /\ g_width = 0
    /\ g_height = 0
    /\ NoMultiplexer

FontWriter_text ==
    LET a == g_call.arg
        t == text(font, a.string, a.x, a.y, a.color, a.bgcolor, a.colors)
    IN  /\ g_call.name = "none"
        /\ g_call' = [g_call EXCEPT !.name = "text"]
        /\ g_pixels' = t.pixels
        /\ g_raised' = t.raised
        /\ UNCHANGED <<ctlvars, mvars, g_width, g_height, font>>

FontWriter_char ==
    LET a == g_call.arg
        t == char(font, a.string[1], a.x, a.y, a.color, a.bgcolor, a.colors)
    IN  /\ g_call.name = "none"
        /\ a.string # << >>
        /\ g_call' = [g_call EXCEPT !.name = "char"]
        /\ g_pixels' = t.pixels
        /\ g_raised' = t.raised
        /\ UNCHANGED <<ctlvars, mvars, g_width, g_height, font>>

FNext ==
    \/ FontWriter_text
    \/ FontWriter_char

SpecFont == FInit /\ [][FNext]_vars

(***************************************************************************)
(* I2CMultiplexer (multiplexer.py).  A device is known by its channel:     *)
(* device_reg maps a channel to the number of devices registered on it,    *)
(* and device holds the channel whose device list select_channel took.     *)
(* The module binds I2C_MULTIPLEXER_ADDRESS and the methods read           *)
(* I2CMULTIPLEXER_ADDRESS, a name that resolves only where the             *)
(* environment binds it (m_address_bound).                                 *)
(***************************************************************************)
NumChannels == 8

MaxDevices == 1

\* the scan outcomes, the channels of register_device and of select_channel
Connections == { {}, {2}, {0, 1, 2}, {1, 2, 5} }

RegChannels == {0, 1, 2, 5}

SelectChannels == {0, 1, 2, 5, 8}

RECURSIVE Shl1(_)
Shl1(i) == IF i = 0 THEN 1 ELSE 2 * Shl1(i - 1)

\* "chs[i] = 1 << i"
chs(i) == Shl1(i)

\* the channels of lo..hi in increasing order that are (not) connected
RECURSIVE scan_channels(_, _, _)
scan_channels(j, connected, want) ==
    IF j >= NumChannels THEN << >>
    ELSE (IF (j \in connected) = want THEN <<j>> ELSE << >>)
             \o scan_channels(j + 1, connected, want)

\* bytearray.index: the 0-based position of the first v, or ValueError
index(seq, v) ==
    IF \E i \in 1..Len(seq) : seq[i] = v
    THEN [value |-> (CHOOSE i \in 1..Len(seq) :
                        seq[i] = v /\ \A j \in 1..(i - 1) : seq[j] # v) - 1,
          raised |-> "none"]
    ELSE [value |-> 0, raised |-> "ValueError"]

\* seq[i] of Python for a 0-based i, negative i counting from the end
subscript(seq, i) ==
    IF 0 <= i /\ i < Len(seq) THEN [value |-> seq[i + 1], raised |-> "none"]
    ELSE IF i < 0 /\ 0 - i <= Len(seq)
         THEN [value |-> seq[Len(seq) + i + 1], raised |-> "none"]
         ELSE [value |-> 0, raised |-> "IndexError"]

\* _set_channel: the bytes written, and the exception
set_channel(bound, ch) ==
    IF ch >= 0 /\ ch < NumChannels
    THEN IF bound THEN [writes |-> <<chs(ch)>>, raised |-> "none"]
                  ELSE [writes |-> << >>, raised |-> "NameError"]
    ELSE [writes |-> << >>, raised |-> "none"]

\* select_channel: the fields and writes it leaves, and the exception
select_channel(bound, reg, ch0, dev0, ch) ==
    LET sc == set_channel(bound, ch)
    IN  IF sc.raised # "none"
        THEN [channel |-> ch0, device |-> dev0, writes |-> sc.writes,
              raised |-> sc.raised]
        ELSE IF ch \notin DOMAIN reg
             THEN [channel |-> ch, device |-> dev0, writes |-> sc.writes,
                   raised |-> "KeyError"]
             ELSE [channel |-> ch, device |-> ch, writes |-> sc.writes,
                   raised |-> "none"]

Unselected(ch0, dev0, err) ==
    [channel |-> ch0, device |-> dev0, writes |-> << >>, raised |-> err]

next_channel(bound, reg, a_chs, ch0, dev0) ==
    LET ix == index(a_chs, ch0)
    IN  IF ix.raised # "none" THEN Unselected(ch0, dev0, ix.raised)
        ELSE LET ch_index == IF ix.value >= 0 /\ ix.value < Len(a_chs)
                             THEN ix.value + 1 ELSE 0
                 sub == subscript(a_chs, ch_index)
             IN  IF sub.raised # "none" THEN Unselected(ch0, dev0, sub.raised)
                 ELSE select_channel(bound, reg, ch0, dev0, sub.value)

previous_channel(bound, reg, a_chs, ch0, dev0) ==
    LET ix == index(a_chs, ch0)
    IN  IF ix.raised # "none" THEN Unselected(ch0, dev0, ix.raised)
        ELSE LET ch_index == IF ix.value >= 0 /\ ix.value < Len(a_chs)
                             THEN ix.value - 1 ELSE Len(a_chs) - 1
                 sub == subscript(a_chs, ch_index)
             IN  IF sub.raised # "none" THEN Unselected(ch0, dev0, sub.raised)
                 ELSE select_channel(bound, reg, ch0, dev0, sub.value)

\* _init_multiplexer: the lists built, the bytes written, the exception
init_multiplexer(bound, connected) ==
    IF ~bound
    THEN [a_chs |-> << >>, i_chs |-> << >>, writes |-> << >>, raised |-> "NameError"]
    ELSE LET a_chs == scan_channels(0, connected, TRUE)
             i_chs == scan_channels(0, connected, FALSE)
             probes == [j \in 1..NumChannels |-> chs(j - 1)]
             sub == subscript(a_chs, 0)
         IN  IF sub.raised # "none"
             THEN [a_chs |-> a_chs, i_chs |-> i_chs, writes |-> probes,
                   raised |-> sub.raised]
             ELSE [a_chs |-> a_chs, i_chs |-> i_chs,
                   writes |-> probes \o set_channel(bound, sub.value).writes,
                   raised |-> "none"]

MInit ==
    /\ NoController
    /\ g_call = [name |-> "none", arg |-> << >>]
    /\ g_pixels = << >>
    /\ g_width = 0
    /\ g_height = 0
    /\ g_raised = "none"
    /\ font = << >>
    /\ active_channels = << >>
    /\ inactive_channels = << >>
    /\ channel = 0
    /\ device = NoDevice
    /\ device_reg = << >>
    /\ m_connected \in Connections
    /\ m_address_bound \in BOOLEAN
    /\ m_constructed = FALSE
    /\ m_call = [name |-> "none", arg |-> << >>]
    /\ m_writes = << >>
    /\ m_raised = "none"

menv == <<ctlvars, gvars, m_connected, m_address_bound>>

\* I2CMultiplexer(i2c); an exception leaves no object
I2CMultiplexer_init ==
    LET r == init_multiplexer(m_address_bound, m_connected)
    IN  /\ ~m_constructed
        /\ m_call.name = "none"
        /\ m_call' = [name |-> "__init__", arg |-> << >>]
        /\ m_writes' = r.writes
        /\ m_raised' = r.raised
        /\ m_constructed' = (r.raised = "none")
        /\ active_channels' = IF r.raised = "none" THEN r.a_chs ELSE << >>
        /\ inactive_channels' = IF r.raised = "none" THEN r.i_chs ELSE << >>
        /\ UNCHANGED <<channel, device, device_reg, menv>>

I2CMultiplexer_register_device ==
    \E ch \in RegChannels :
        /\ m_constructed
        /\ (ch \in DOMAIN device_reg => device_reg[ch] < MaxDevices)
        /\ device_reg' = IF ch \in DOMAIN device_reg
                         THEN [device_reg EXCEPT ![ch] = @ + 1]
                         ELSE (ch :> 1) @@ device_reg
        /\ m_call' = [name |-> "register_device", arg |-> <<ch>>]
        /\ m_writes' = << >>
        /\ m_raised' = "none"
        /\ UNCHANGED <<active_channels, inactive_channels, channel, device,
                       m_constructed, menv>>

\* a selecting call: the fields, writes and exception it leaves
Selects(name, arg, r) ==
    /\ m_constructed
    /\ m_call' = [name |-> name, arg |-> arg]
    /\ channel' = r.channel
    /\ device' = r.device
    /\ m_writes' = r.writes
    /\ m_raised' = r.raised
    /\ UNCHANGED <<active_channels, inactive_channels, device_reg,
                   m_constructed, menv>>

I2CMultiplexer_select_channel ==
    \E ch \in SelectChannels :
        Selects("select_channel", <<ch>>,
                select_channel(m_address_bound, device_reg, channel, device, ch))

I2CMultiplexer_next_channel ==
    Selects("next_channel", << >>,
            next_channel(m_address_bound, device_reg, active_channels, channel, device))

I2CMultiplexer_previous_channel ==
    Selects("previous_channel", << >>,
            previous_channel(m_address_bound, device_reg, active_channels, channel,
                             device))

MNext ==
    \/ I2CMultiplexer_init
    \/ I2CMultiplexer_register_device
    \/ I2CMultiplexer_select_channel
    \/ I2CMultiplexer_next_channel
    \/ I2CMultiplexer_previous_channel

SpecMux == MInit /\ [][MNext]_vars

(***************************************************************************)
(* Properties of Graphics, checked under SpecGfx.                          *)
(***************************************************************************)
\* C10: line(x0,y0,x1,y1) and line(x1,y1,x0,y0) make _pixel calls for the
\* same set of pixels.
C10_LineSymmetric ==
    g_call.name = "line" =>
        PixelSet(g_pixels) =
            PixelSet(line(g_call.arg[3], g_call.arg[4], g_call.arg[1], g_call.arg[2]))

C10_Witness ==
    /\ g_call.name = "line"
    /\ g_call.arg = <<2, 3, 0 - 1, 0 - 3>>
    /\ Len(g_pixels) = 7

\* C11: the pixels of circle(x0,y0,r) are closed under reflection in the
\* vertical axis x = x0 and in the horizontal axis y = y0, and contain the
\* four axis points, also for a radius for which the loop does not run.
C11_CircleSymmetric ==
    g_call.name = "circle" =>
        LET x0 == g_call.arg[1]
            y0 == g_call.arg[2]
            r == g_call.arg[3]
            S == PixelSet(g_pixels)
        IN  /\ \A pt \in S : /\ <<2 * x0 - pt[1], pt[2]>> \in S
                             /\ <<pt[1], 2 * y0 - pt[2]>> \in S
            /\ { <<x0, y0 + r>>, <<x0, y0 - r>>, <<x0 + r, y0>>, <<x0 - r, y0>> } \subseteq S
            /\ r = 0 => Len(g_pixels) = 4

C11_Witness ==
    /\ g_call.name = "circle" /\ g_call.arg[3] = 3
    /\ Len(g_pixels) = 20
    /\ <<g_call.arg[1] - 2, g_call.arg[2] - 2>> \in PixelSet(g_pixels)

\* C12: fill_triangle with the three vertices on one row y, in any order,
\* makes one horizontal span from min(x) to max(x) on row y: no pixel of
\* another row or outside the span, each pixel of the span once, and the
\* canvas shows exactly the span (a span wholly off the canvas is skipped).
C12_FlatTriangleSpan ==
    (g_call.name = "fill_triangle" /\ g_call.arg[2] = g_call.arg[4]
                                   /\ g_call.arg[4] = g_call.arg[6]) =>
        LET xs == {g_call.arg[1], g_call.arg[3], g_call.arg[5]}
            lo == CHOOSE x \in xs : \A z \in xs : x <= z
            hi == CHOOSE x \in xs : \A z \in xs : x >= z
            span == { <<x, g_call.arg[2]>> : x \in lo..hi }
            S == PixelSet(g_pixels)
        IN  /\ g_raised = "none"
            /\ S = span \/ (S = {} /\ Visible(g_width, g_height, span) = {})
            /\ Visible(g_width, g_height, S) = Visible(g_width, g_height, span)
            /\ S # {} => g_pixels = [i \in 1..(hi - lo + 1) |-> <<lo + (i - 1), g_call.arg[2]>>]

C12_Witness ==
    /\ g_call.name = "fill_triangle"
    /\ g_call.arg = <<1, 1, 0 - 2, 1, 2, 1>>
    /\ Len(g_pixels) = 5

\* C13: on a cleared canvas of the Graphics' width and height, fill_rect with
\* w, h >= 0 sets exactly the canvas pixels with x0 <= x < x0+w and
\* y0 <= y < y0+h; on 128x32, fill_rect(10,5,20,10) sets (15,10) and leaves
\* (35,10) and (5,5) clear.
C13_FillRectExact ==
    (g_call.name = "fill_rect" /\ g_call.arg[3] >= 0 /\ g_call.arg[4] >= 0) =>
        LET x0 == g_call.arg[1]
            y0 == g_call.arg[2]
            lit == OnCanvas(g_width, g_height, g_pixels)
        IN  /\ lit = { pt \in (0..(g_width - 1)) \X (0..(g_height - 1)) :
                          /\ x0 <= pt[1] /\ pt[1] < x0 + g_call.arg[3]
                          /\ y0 <= pt[2] /\ pt[2] < y0 + g_call.arg[4] }
            /\ (g_width = 128 /\ g_height = 32 /\ g_call.arg = <<10, 5, 20, 10>>) =>
                  /\ <<15, 10>> \in lit
                  /\ <<35, 10>> \notin lit
                  /\ <<5, 5>> \notin lit
                  /\ Cardinality(lit) = 200

C13_Witness ==
    /\ g_call.name = "fill_rect" /\ g_width = 128 /\ g_height = 32
    /\ g_call.arg = <<10, 5, 20, 10>>
    /\ <<15, 10>> \in OnCanvas(g_width, g_height, g_pixels)

Min(S) == CHOOSE x \in S : \A z \in S : x <= z

Max(S) == CHOOSE x \in S : \A z \in S : x >= z

RowOf(S, y) == { pt[1] : pt \in { q \in S : q[2] = y } }

ColumnOf(S, x) == { pt[2] : pt \in { q \in S : q[1] = x } }

\* C16: for a triangle that is not fully horizontal, with the vertices
\* sorted so that y0 <= y1 <= y2, fill_triangle draws one horizontal span on
\* each row of [y0, y2] and nothing on another row, and every pixel lies in
\* the bounding box of the vertices; also for flat-top and flat-bottom.
C16_OneSpanPerRow ==
    (g_call.name = "fill_triangle"
        /\ Cardinality({g_call.arg[2], g_call.arg[4], g_call.arg[6]}) > 1) =>
        LET xs == {g_call.arg[1], g_call.arg[3], g_call.arg[5]}
            ys == {g_call.arg[2], g_call.arg[4], g_call.arg[6]}
            S == PixelSet(g_pixels)
        IN  /\ \A pt \in S : /\ Min(xs) <= pt[1] /\ pt[1] <= Max(xs)
                             /\ Min(ys) <= pt[2] /\ pt[2] <= Max(ys)
            /\ Len(g_pixels) = Cardinality(S)
            /\ \A y \in Min(ys)..Max(ys) :
                  /\ RowOf(S, y) # {} => RowOf(S, y) = Min(RowOf(S, y))..Max(RowOf(S, y))
                  /\ (0 <= y /\ y <= g_height /\ 0 <= Min(xs) /\ Max(xs) <= g_width)
                        => RowOf(S, y) # {}

\* C17 (as claimed): every primitive makes a bounding-box pre-check, so that
\* a shape lying entirely outside the canvas makes no set-pixel call.
C17_Primitives ==
    {"hline", "vline", "rect", "fill_rect", "line", "circle", "fill_circle",
     "triangle", "fill_triangle"}

C17_Near(pt) ==
    /\ 0 - 1 <= pt[1] /\ pt[1] <= g_width
    /\ 0 - 1 <= pt[2] /\ pt[2] <= g_height

C17_Box(name, a) ==
    IF name = "hline" THEN (a[1]..(a[1] + a[3] - 1)) \X {a[2]}
    ELSE IF name = "vline" THEN {a[1]} \X (a[2]..(a[2] + a[3] - 1))
    ELSE (a[1]..(a[1] + a[3] - 1)) \X (a[2]..(a[2] + a[4] - 1))

C18_DegenerateNeverRaises ==
    /\ g_raised = "none"
    /\ (g_call.name = "circle" /\ g_call.arg[3] = 0) =>
          PixelSet(g_pixels) = { <<g_call.arg[1], g_call.arg[2]>> }
    /\ (g_call.name = "fill_circle" /\ g_call.arg[3] = 0) =>
          /\ PixelSet(g_pixels) \subseteq { <<g_call.arg[1], g_call.arg[2]>> }
          /\ OnCanvas(g_width, g_height, g_pixels)
                = Visible(g_width, g_height, { <<g_call.arg[1], g_call.arg[2]>> })

C18_Witness ==
    /\ g_call.name = "fill_triangle"
    /\ g_call.arg = <<1, 0, 1, 0, 2, 1>>
    /\ g_raised = "none"
    /\ g_pixels # << >>

\* C19: line makes max(|x1-x0|, |y1-y0|) + 1 set-pixel calls, one for each
\* coordinate along the major axis; the first and the last are the two end
\* points; consecutive pixels differ by 1 on the major axis and by at most 1
\* on the minor axis.
C19_LineConnected ==
    g_call.name = "line" =>
        LET a == g_call.arg
            adx == abs(a[3] - a[1])
            ady == abs(a[4] - a[2])
            major == IF ady > adx THEN 2 ELSE 1
            minor == IF ady > adx THEN 1 ELSE 2
            n == Len(g_pixels)
        IN  /\ n = (IF adx > ady THEN adx ELSE ady) + 1
            /\ {g_pixels[1], g_pixels[n]} = { <<a[1], a[2]>>, <<a[3], a[4]>> }
            /\ \A i \in 1..(n - 1) :
                  /\ g_pixels[i + 1][major] = g_pixels[i][major] + 1
                  /\ abs(g_pixels[i + 1][minor] - g_pixels[i][minor]) <= 1

C19_Witness ==
    /\ g_call.name = "line"
    /\ g_call.arg = <<3, 0 - 1, 0 - 2, 2>>
    /\ Len(g_pixels) = 6

\* C20: fill_circle covers the outline filled in column by column: a pixel
\* (x, y) is drawn exactly when circle draws (x, ya) and (x, yb) with
\* ya <= y <= yb (a column wholly off the canvas is skipped).
C20_Filled(C) ==
    { pt \in { q[1] : q \in C } \X (Min({ q[2] : q \in C })..Max({ q[2] : q \in C })) :
          /\ ColumnOf(C, pt[1]) # {}
          /\ Min(ColumnOf(C, pt[1])) <= pt[2]
          /\ pt[2] <= Max(ColumnOf(C, pt[1])) }

C20_FillCircleIsFilledOutline ==
    g_call.name = "fill_circle" =>
        LET C == PixelSet(circle(g_call.arg[1], g_call.arg[2], g_call.arg[3]))
            F == C20_Filled(C)
            S == PixelSet(g_pixels)
        IN  /\ S \subseteq F
            /\ Visible(g_width, g_height, S) = Visible(g_width, g_height, F)
            /\ Visible(g_width, g_height, C) \subseteq S
            /\ \A x \in { q[1] : q \in F } :
                  \/ ColumnOf(S, x) = ColumnOf(F, x)
                  \/ /\ ColumnOf(S, x) = {}
                     /\ Visible(g_width, g_height, {x} \X ColumnOf(F, x)) = {}

C20_Witness ==
    /\ g_call.name = "fill_circle" /\ g_width = 128
    /\ g_call.arg = <<10, 5, 5>>
    /\ PixelSet(g_pixels) = C20_Filled(PixelSet(circle(10, 5, 5)))
    /\ <<7, 2>> \in PixelSet(g_pixels)

(***************************************************************************)
(* Properties of FontWriter, checked under SpecFont.                       *)
(***************************************************************************)
\* what text is to draw when an unknown character without fallback glyph is
\* skipped: the glyph of each character, or of '?', or nothing
RECURSIVE C14_SkippingText(_, _, _, _, _)
C14_SkippingText(fnt, string, x, y, colors) ==
    IF string = << >> THEN << >>
    ELSE LET c == IF Head(string) \in DOMAIN fnt THEN Head(string) ELSE 63
         IN  IF c \in DOMAIN fnt
             THEN draw_glyph(fnt[c], x, y, colors)
                      \o C14_SkippingText(fnt, Tail(string), x + fnt[c][1], y, colors)
             ELSE C14_SkippingText(fnt, Tail(string), x, y, colors)

\* C14: drawing a string with a character that is not in the font never
\* fails: the character is drawn as '?' when the font has that glyph and is
\* skipped otherwise, the remaining characters being drawn; char() with an
\* absent code returns without writing a pixel.
C14_UnknownGlyphNeverFails ==
    /\ g_call.name = "text" =>
          /\ g_raised = "none"
          /\ g_pixels = C14_SkippingText(font, g_call.arg.string, g_call.arg.x, g_call.arg.y,
                                         default_colors(g_call.arg.color, g_call.arg.bgcolor,
                                                        g_call.arg.colors))
    /\ (g_call.name = "char" /\ g_call.arg.string[1] \notin DOMAIN font) =>
          g_raised = "none" /\ g_pixels = << >>

\* the glyph text draws for the k-th character, and its left edge
C21_Glyph(k) ==
    LET c == g_call.arg.string[k]
    IN  IF c \in DOMAIN font THEN font[c] ELSE font[63]

RECURSIVE C21_Left(_)
C21_Left(k) ==
    IF k = 1 THEN g_call.arg.x ELSE C21_Left(k - 1) + C21_Glyph(k - 1)[1]

RECURSIVE C21_Pow4(_)
C21_Pow4(i) == IF i = 0 THEN 1 ELSE 4 * C21_Pow4(i - 1)

C21_Palette ==
    IF g_call.arg.colors = << >>
    THEN <<g_call.arg.color, g_call.arg.color, g_call.arg.bgcolor, g_call.arg.bgcolor>>
    ELSE g_call.arg.colors

\* the samples <<k, j, i>> of the string: character k, glyph row j, column i
C21_Samples ==
    { s \in (1..Len(g_call.arg.string)) \X (0..3) \X (0..3) :
          /\ s[2] < Len(C21_Glyph(s[1])) - 1
          /\ s[3] < C21_Glyph(s[1])[1] }

C21_Color(s) ==
    C21_Palette[((C21_Glyph(s[1])[s[2] + 2] \div C21_Pow4(s[3])) % 4) + 1]

C21_Pixel(s) == <<C21_Left(s[1]) + s[3], g_call.arg.y + s[2], C21_Color(s)>>

\* C21: text draws the k-th character's glyph with its left edge at x plus
\* the widths of the preceding glyphs: for glyph row j and column i below
\* the glyph's width it calls set-pixel at (left + i, y + j) with
\* palette[(byte_j >> 2i) & 3], and makes no call for a palette entry None;
\* without a palette the table is (color, color, bgcolor, bgcolor).
C21_TextPlacesGlyphs ==
    (g_call.name = "text" /\ g_raised = "none") =>
        LET drawn == { s \in C21_Samples : C21_Color(s) # NoColor }
        IN  /\ Len(g_pixels) = Cardinality(drawn)
            /\ \A s \in drawn : \E n \in 1..Len(g_pixels) : g_pixels[n] = C21_Pixel(s)
            /\ \A n \in 1..Len(g_pixels) : \E s \in drawn : g_pixels[n] = C21_Pixel(s)

C21_Witness ==
    /\ g_call.name = "text" /\ g_raised = "none"
    /\ g_call.arg.string = <<65, 66>>
    /\ g_call.arg.x = 2
    /\ g_call.arg.colors = <<1, NoColor, 0, 2>>
    /\ g_pixels = << <<2, 1, 0>>, <<3, 2, 0>>, <<4, 1, 2>>, <<4, 2, 1>> >>

(***************************************************************************)
(* Properties of I2CMultiplexer, checked under SpecMux.                    *)
(***************************************************************************)
C22_Active == { active_channels[i] : i \in 1..Len(active_channels) }

C22_Position == CHOOSE i \in 1..Len(active_channels) : active_channels[i] = channel

\* C22: on a multiplexer whose current channel is an active channel and
\* whose active channels all have a registered device, next_channel selects
\* the active channel after the current one and previous_channel the one
\* before it; also at the last and at the first entry of active_channels
\* the call raises no error and leaves the current channel a member of
\* active_channels.
C22_SteppingStaysActive ==
    [][(/\ m_constructed
        /\ channel \in C22_Active
        /\ C22_Active \subseteq DOMAIN device_reg
        /\ m_call'.name \in {"next_channel", "previous_channel"})
       => /\ m_raised' = "none"
          /\ channel' \in C22_Active
          /\ (m_call'.name = "next_channel" /\ C22_Position < Len(active_channels))
                => channel' = active_channels[C22_Position + 1]
          /\ (m_call'.name = "previous_channel" /\ C22_Position > 1)
                => channel' = active_channels[C22_Position - 1]]_vars

====
